---------------------------- MODULE Spec2Model ----------------------------
(***************************************************************************)
(* A model of quVario:                                                     *)
(*   helium_marki/hydr_var.py   variational method for hydrogen            *)
(*   helium_markii/optipack.py  Metropolis-Hastings Monte Carlo integrator *)
(*                                                                         *)
(* Floating point numbers are modelled as exact rationals <<n, d>>, d > 0, *)
(* in lowest terms: rounding is not modelled, division by zero is.         *)
(***************************************************************************)
EXTENDS Integers, Sequences, FiniteSets

(***************************************************************************)
(* Rational arithmetic (Python floats, without rounding).  The operations  *)
(* are functions, which TLC applies to the values of their arguments.      *)
(***************************************************************************)
Abs(n) == IF n < 0 THEN -n ELSE n

Q == Int \X Int

GCD[a \in Nat, b \in Nat] == IF b = 0 THEN a ELSE GCD[b, a % b]

RatF[n \in Int, d \in Int] ==
    LET g == GCD[Abs(n), Abs(d)]
        sg == IF d < 0 THEN -1 ELSE 1
    IN  IF n = 0 THEN <<0, 1>> ELSE <<sg * (n \div g), sg * (d \div g)>>

\* the rational n / d, d # 0
Rat(n, d) == RatF[n, d]

Zero == <<0, 1>>
One == <<1, 1>>
RInt(n) == <<n, 1>>

RNegF[x \in Q] == <<-x[1], x[2]>>
RNeg(x) == RNegF[x]

RAbsF[x \in Q] == <<Abs(x[1]), x[2]>>
RAbs(x) == RAbsF[x]

RMulF[x \in Q, y \in Q] ==
    LET g1 == GCD[Abs(x[1]), y[2]]
        g2 == GCD[Abs(y[1]), x[2]]
    IN  IF x[1] = 0 \/ y[1] = 0 THEN Zero
        ELSE <<(x[1] \div g1) * (y[1] \div g2), (x[2] \div g2) * (y[2] \div g1)>>
RMul(x, y) == RMulF[x, y]

RAddF[x \in Q, y \in Q] ==
    LET g == GCD[x[2], y[2]]
    IN  RatF[x[1] * (y[2] \div g) + y[1] * (x[2] \div g), (x[2] \div g) * y[2]]
RAdd(x, y) == RAddF[x, y]

RSub(x, y) == RAddF[x, RNegF[y]]

RLessF[x \in Q, y \in Q] ==
    LET g == GCD[x[2], y[2]]
    IN  x[1] * (y[2] \div g) < y[1] * (x[2] \div g)
RLess(x, y) == RLessF[x, y]

RLeq(x, y) == ~RLessF[y, x]

\* 1 / x for x # 0
RInvF[x \in Q] == IF x[1] > 0 THEN <<x[2], x[1]>> ELSE <<-x[2], -x[1]>>
RInv(x) == RInvF[x]

RPowF[x \in Q, n \in Nat] == IF n = 0 THEN One ELSE RMulF[x, RPowF[x, n - 1]]
RPow(x, n) == RPowF[x, n]

IPow[b \in Int, n \in Nat] == IF n = 0 THEN 1 ELSE b * IPow[b, n - 1]

Fact[n \in Nat] == IF n = 0 THEN 1 ELSE n * Fact[n - 1]

\* the sum of the first n entries of the sequence s of rationals
RECURSIVE RSumTo(_, _)
RSumTo(s, n) == IF n = 0 THEN Zero ELSE RAddF[RSumTo(s, n - 1), s[n]]

RSum(s) == RSumTo(s, Len(s))

\* a variant of min(list) that takes the last entry
LastEntry(s) == s[Len(s)]

\* Python's min(list): the first least entry
RECURSIVE RMinTo(_, _)
RMinTo(s, n) ==
    IF n = 1 THEN s[1]
    ELSE IF RLessF[s[n], RMinTo(s, n - 1)] THEN s[n] ELSE RMinTo(s, n - 1)

RMin(s) == RMinTo(s, Len(s))

(***************************************************************************)
(* hydr_var.py: symbolic layer.                                            *)
(*                                                                         *)
(* A sympy expression in R.r and alpha of the family the trial functions   *)
(* and their images under H stay in:                                       *)
(*     ( SUM_i  k_i * alpha^apow_i * r^rpow_i ) * exp(-rate * alpha * r)   *)
(* is the record [terms |-> <<[k, apow, rpow], ...>>, rate |-> rate].      *)
(***************************************************************************)
Term(k, apow, rpow) == [k |-> k, apow |-> apow, rpow |-> rpow]

Expr(terms, rate) == [terms |-> terms, rate |-> rate]

\* hydr_var.py:39  inf = 1000, and the default endpt of var_intgrl
inf == 1000

ScaleTerms(c, terms) ==
    [i \in 1..Len(terms) |->
        Term(RMul(c, terms[i].k), terms[i].apow, terms[i].rpow)]

ShiftR(terms, n) ==
    [i \in 1..Len(terms) |-> Term(terms[i].k, terms[i].apow, terms[i].rpow + n)]

RECURSIVE FlatTerms(_)
FlatTerms(ss) == IF ss = <<>> THEN <<>> ELSE Head(ss) \o FlatTerms(Tail(ss))

\* The Laplacian of one term k * alpha^m * r^p * exp(-c*alpha*r) of a function
\* of r alone, in spherical coordinates: f'' + (2/r) f'
Del2Term(t, c) ==
    << Term(RMul(RInt(t.rpow * (t.rpow + 1)), t.k), t.apow, t.rpow - 2),
       Term(RMul(RInt(-2 * c * (t.rpow + 1)), t.k), t.apow + 1, t.rpow - 1),
       Term(RMul(RInt(c * c), t.k), t.apow + 2, t.rpow) >>

\* del2(f) = delop.dot(delop(f)).doit()
del2(f) ==
    Expr(FlatTerms([i \in 1..Len(f.terms) |-> Del2Term(f.terms[i], f.rate)]),
         f.rate)

\* H(psi) = - 1 / 2 * del2(psi) - 1 / R.r * psi
H(psi) ==
    Expr(ScaleTerms(<<-1, 2>>, del2(psi).terms)
            \o ShiftR(ScaleTerms(RInt(-1), psi.terms), -1),
         psi.rate)

\* conjugate(psi): alpha and R.r are evaluated at real numbers only, where the
\* conjugate of the expression has the value of the expression
conjugate(psi) == psi

MulTerm(s, t) == Term(RMul(s.k, t.k), s.apow + t.apow, s.rpow + t.rpow)

\* the product of two expressions
Times(f, g) ==
    Expr(FlatTerms([i \in 1..Len(f.terms) |->
                      [j \in 1..Len(g.terms) |-> MulTerm(f.terms[i], g.terms[j])]]),
         f.rate + g.rate)

\* simplify(e): the same function of (r, alpha); terms with coefficient 0 go
simplify(e) == Expr(SelectSeq(e.terms, LAMBDA t : t.k # Zero), e.rate)

\* a variant of the jacobian: R.r
JacobianLinear == Expr(<<Term(One, 0, 1)>>, 0)

\* jacobian = R.r ** 2
jacobian == Expr(<<Term(One, 0, 2)>>, 0)

\* lambdify((R.r, alpha), e, 'scipy'): the numeric callable of (r, alpha)
\* that evaluates e; it is kept as the expression and evaluated by quad
lambdify(e) == e

(***************************************************************************)
(* scipy.integrate.quad(f, lo, hi, args = (a)) [0].                        *)
(* quad raises nothing when an integral is large or converges slowly: it   *)
(* returns its estimate.  For a polynomial integrand (rate * a = 0) the    *)
(* estimate is the integral.  For a decaying integrand (rate * a > 0) over *)
(* [0, inf] the tail beyond inf is below the precision of a float, and the *)
(* estimate is the integral over [0, infinity).                            *)
(***************************************************************************)
Moment(p, lam, lo, hi) ==
    IF lam = Zero
    THEN Rat(IPow[hi, p + 1] - IPow[lo, p + 1], p + 1)
    ELSE RMul(RInt(Fact[p]), RInv(RPow(lam, p + 1)))

quad(f, lo, hi, a) ==
    RSum([i \in 1..Len(f.terms) |->
            RMul(RMul(f.terms[i].k, RPow(a, f.terms[i].apow)),
                 Moment(f.terms[i].rpow, RMul(RInt(f.rate), a), lo, hi))])

(***************************************************************************)
(* hydr_var.py: the variational integral.  A call returns                  *)
(* [ok |-> TRUE, val |-> v] or [ok |-> FALSE, err |-> exception].          *)
(***************************************************************************)
Ok(v) == [ok |-> TRUE, val |-> v]
Raise(e) == [ok |-> FALSE, err |-> e]

\* the domain expectation_intgrl hands to quad
ExpectationDomain(stpt, endpt) == <<0, endpt>>

expectation_intgrl(expectation_lamb, a, stpt, endpt) ==
    LET dom == ExpectationDomain(stpt, endpt)
    IN  Ok(quad(expectation_lamb, dom[1], dom[2], a))

\* the domain norm_intgrl hands to quad
NormDomain(stpt, endpt) == <<stpt, endpt>>

\* the integrals of this size or less are the near-zero ones
NearZeroTol == <<1, 1000000>>

NearZero(x) == RLeq(RAbs(x), NearZeroTol)

\* a variant of N_squared = 1 / norm_intgrl[0] that raises on every near-zero
\* integral
ReciprocalGuarded(x) ==
    IF NearZero(x) THEN Raise("ZeroDivisionError") ELSE Ok(RInv(x))

\* N_squared = 1 / norm_intgrl[0]: Python raises on a float division by 0.0
\* and on nothing else
Reciprocal(x) == IF x = Zero THEN Raise("ZeroDivisionError") ELSE Ok(RInv(x))

norm_intgrl(norm_lamb, a, stpt, endpt) ==
    LET dom == NormDomain(stpt, endpt)
    IN  Reciprocal(quad(norm_lamb, dom[1], dom[2], a))

\* a variant of var_intgrl without the normalisation
var_intgrl_unnormalised(a, expectation_lamb, norm_lamb, stpt, endpt) ==
    LET n == Reciprocal(quad(norm_lamb, stpt, endpt, a))
        e == Ok(quad(expectation_lamb, 0, endpt, a))
    IN  IF ~n.ok THEN n ELSE e

\* the left operand of the product is evaluated first
var_intgrl(a, expectation_lamb, norm_lamb, stpt, endpt) ==
    LET n == norm_intgrl(norm_lamb, a, stpt, endpt)
        e == expectation_intgrl(expectation_lamb, a, stpt, endpt)
    IN  IF ~n.ok THEN n
        ELSE IF ~e.ok THEN e
        ELSE Ok(RMul(n.val, e.val))

\* energy(psi), lines 191-198: the two callables
ExpectationLamb(psi) ==
    lambdify(Times(simplify(Times(conjugate(psi), H(psi))), jacobian))

NormLamb(psi) == lambdify(Times(Times(conjugate(psi), psi), jacobian))

(***************************************************************************)
(* hydr_var.py: the text of a trial function and its expression.           *)
(***************************************************************************)
\* a line no expression can be parsed from
Malformed == "exp(-alpha*r"

\* parse_expr(line), then x.subs(symbols('r'), R.r): the r of the text is the
\* radial base scalar from here on
parse_expr(line) ==
    CASE line = "0" -> Ok(Expr(<<Term(Zero, 0, 0)>>, 0))
      [] line = "1" -> Ok(Expr(<<Term(One, 0, 0)>>, 0))
      [] line = "0.0001" -> Ok(Expr(<<Term(<<1, 10000>>, 0, 0)>>, 0))
      [] line = "alpha" -> Ok(Expr(<<Term(One, 1, 0)>>, 0))
      [] line = "exp(-alpha*r)" -> Ok(Expr(<<Term(One, 0, 0)>>, 1))
      [] line = "2*exp(-alpha*r)" -> Ok(Expr(<<Term(RInt(2), 0, 0)>>, 1))
      [] OTHER -> Raise("SyntaxError")

(***************************************************************************)
(* State.                                                                  *)
(*   h_*  one run of hydr_var.py: main() and the print of line 236         *)
(*   v_*  one call var_intgrl(a, expectation_lamb, norm_lamb, stpt, endpt) *)
(*   m_*  one call integrator_mcmc(pfunc, qfunc, sample_iter, walkers,     *)
(*        alpha, dims)                                                     *)
(*                                                                         *)
(*   h_pc         where the run is: "start", "loop" (line 221), "fmin"     *)
(*                (inside the fmin of line 204), "returned" (main          *)
(*                returned), "done", "failed" (an exception left main)     *)
(*   h_file       the lines of hydr_var_trialfuncs.txt                     *)
(*   h_trialfuncs what readtrialfuncs returned                             *)
(*   h_k          the trial functions the loop of line 221 has taken       *)
(*   h_energies   energies                                                 *)
(*   h_out        what was printed, in order                               *)
(*   h_err        the exception that ended the run                         *)
(*   h_ret        what main returned                                       *)
(*   h_args       energy's (expectation_lamb, norm_lamb), fmin's args      *)
(*   h_sim, h_fsim, h_iter, h_fcalls   fmin's simplex, its values, its     *)
(*                iterations and function calls                            *)
(*   h_evals      observer: the calls of var_intgrl fmin made in the       *)
(*                current call of energy, with what each returned          *)
(*   h_calls      observer: the trial functions energy was called with     *)
(***************************************************************************)
VARIABLES h_pc, h_file, h_trialfuncs, h_k, h_energies, h_out, h_err, h_ret,
          h_args, h_sim, h_fsim, h_iter, h_fcalls, h_evals, h_calls

hvars == <<h_pc, h_file, h_trialfuncs, h_k, h_energies, h_out, h_err, h_ret,
           h_args, h_sim, h_fsim, h_iter, h_fcalls, h_evals, h_calls>>

VARIABLES v_pc, v_args, v_quads, v_norm, v_expect, v_ret

vvars == <<v_pc, v_args, v_quads, v_norm, v_expect, v_ret>>

VARIABLES m_pc, m_args, m_w, m_vals, m_itest, m_rejects, m_p, m_ret,
          m_matrix, m_i, m_rr, m_samples, m_test, m_e,
          m_nacc, m_nrej, m_avg, m_ratios

mhvars == <<m_matrix, m_i, m_rr, m_samples, m_test, m_e, m_nacc, m_nrej>>
ivars == <<m_args, m_w, m_vals, m_itest, m_rejects, m_p, m_ret, m_avg, m_ratios>>
mvars == <<m_pc, m_args, m_w, m_vals, m_itest, m_rejects, m_p, m_ret,
           m_matrix, m_i, m_rr, m_samples, m_test, m_e,
           m_nacc, m_nrej, m_avg, m_ratios>>

(***************************************************************************)
(* One call of var_intgrl, on its own: the arguments are drawn from        *)
(* bounded sets, stpt and endpt included.                                  *)
(***************************************************************************)
\* the largest stpt and endpt drawn
MaxPt == 3

\* trial functions whose integrands are polynomials in r
VarTrialFuncs == {"0", "1", "0.0001", "alpha"}

VarAlphas == {<<1, 10>>, <<1, 2>>, <<2, 1>>}

None == [ok |-> FALSE, err |-> "none"]

VInit ==
    /\ v_pc = "call"
    /\ v_args \in [a : VarAlphas, psi : VarTrialFuncs,
                   stpt : 0..MaxPt, endpt : 0..MaxPt]
    /\ v_quads = <<>>
    /\ v_norm = None
    /\ v_expect = None
    /\ v_ret = None

VIdle ==
    /\ v_pc = "idle"
    /\ v_args = [a |-> One, psi |-> "1", stpt |-> 0, endpt |-> 0]
    /\ v_quads = <<>>
    /\ v_norm = None
    /\ v_expect = None
    /\ v_ret = None

VExpectationLamb == ExpectationLamb(parse_expr(v_args.psi).val)
VNormLamb == NormLamb(parse_expr(v_args.psi).val)

QuadCall(f, dom, a) ==
    [lo |-> dom[1], hi |-> dom[2], val |-> quad(f, dom[1], dom[2], a)]

\* line 174, left operand: norm_intgrl(norm_lamb, a, stpt, endpt) returns
VarNorm ==
    /\ UNCHANGED <<mvars, hvars>>
    /\ v_pc = "call"
    /\ v_quads' = Append(v_quads,
            QuadCall(VNormLamb, NormDomain(v_args.stpt, v_args.endpt), v_args.a))
    /\ v_norm' = norm_intgrl(VNormLamb, v_args.a, v_args.stpt, v_args.endpt)
    /\ v_norm'.ok
    /\ v_pc' = "norm"
    /\ UNCHANGED <<v_args, v_expect, v_ret>>

\* line 152 raises: the exception leaves norm_intgrl and var_intgrl
VarNormRaise ==
    /\ UNCHANGED <<mvars, hvars>>
    /\ v_pc = "call"
    /\ v_quads' = Append(v_quads,
            QuadCall(VNormLamb, NormDomain(v_args.stpt, v_args.endpt), v_args.a))
    /\ v_norm' = norm_intgrl(VNormLamb, v_args.a, v_args.stpt, v_args.endpt)
    /\ ~v_norm'.ok
    /\ v_ret' = var_intgrl(v_args.a, VExpectationLamb, VNormLamb,
                           v_args.stpt, v_args.endpt)
    /\ v_pc' = "raised"
    /\ UNCHANGED <<v_args, v_expect>>

\* line 175, right operand: expectation_intgrl(expectation_lamb, a, stpt, endpt)
VarExpectation ==
    /\ UNCHANGED <<mvars, hvars>>
    /\ v_pc = "norm"
    /\ v_quads' = Append(v_quads,
            QuadCall(VExpectationLamb,
                     ExpectationDomain(v_args.stpt, v_args.endpt), v_args.a))
    /\ v_expect' = expectation_intgrl(VExpectationLamb, v_args.a,
                                      v_args.stpt, v_args.endpt)
    /\ v_pc' = "expect"
    /\ UNCHANGED <<v_args, v_norm, v_ret>>

\* line 177: return var_intgrl
VarReturn ==
    /\ UNCHANGED <<mvars, hvars>>
    /\ v_pc = "expect"
    /\ v_ret' = var_intgrl(v_args.a, VExpectationLamb, VNormLamb,
                           v_args.stpt, v_args.endpt)
    /\ v_pc' = "done"
    /\ UNCHANGED <<v_args, v_quads, v_norm, v_expect>>

VNext == VarNorm \/ VarNormRaise \/ VarExpectation \/ VarReturn

(***************************************************************************)
(* optipack.py: metropolis_hastings and integrator_mcmc.                   *)
(*                                                                         *)
(*   m_args     sample_iter, walkers, dims, qfunc of integrator_mcmc       *)
(*   m_w        integrator_mcmc's loop index i                             *)
(*   m_vals, m_itest, m_rejects, m_p, m_ret   its vals, test, rejects, p   *)
(*              and what it returns                                        *)
(*   m_matrix, m_i, m_rr, m_samples, m_test   metropolis_hastings'         *)
(*              initial_matrix, i, reject_ratio, samples, test             *)
(*   m_e        observer: the e_index of the last accepted proposal        *)
(*   m_nacc, m_nrej   observers: the proposals accepted and rejected in    *)
(*              the current call of metropolis_hastings                    *)
(*   m_avg      observer: the sum, the number of samples summed and the    *)
(*              divisor of the last average (line 102)                     *)
(*   m_ratios   observer: the reject_ratio each walker's call returned     *)
(*                                                                         *)
(* np.random.rand draws from [0, 1); the model draws 2.*s*rand(3) - s from *)
(* UniformDraws.  pfunc is any positive density: p > np.random.rand() may  *)
(* come out either way.  A displacement of exactly (0, 0, 0) has           *)
(* probability zero and is not drawn.                                      *)
(***************************************************************************)

\* the largest sample_iter and walkers drawn
MaxSampleIter == 3
MaxWalkers == 2

\* dims of the helium atom: two electrons
Dims == {6}

\* optipack.py:45, 47, 50 and 90
s == 3
equi_threshold == 0
therm_mh == 1
therm == 0

\* values of 2.*s*np.random.rand(3) - s, each coordinate in [-s, s)
UniformDraws == {<<One, RInt(-2), Zero>>}

QFuncs == {"one", "x"}

\* np.reshape(matrix, (1, dims))[0]
Flatten(matrix) == FlatTerms(matrix)

\* qfunc(array, alpha)
qfunc(q, array) == IF q = "one" THEN One ELSE array[1]

Electrons(dims) == dims \div 3

Unset == <<"unset">>

MInit ==
    /\ m_pc = "walker"
    /\ m_args \in [sample_iter : 1..MaxSampleIter, walkers : 1..MaxWalkers,
                   dims : Dims, qfunc : QFuncs]
    /\ m_w = 0
    /\ m_vals = [k \in 1..m_args.walkers |-> Zero]
    /\ m_itest = <<>>
    /\ m_rejects = Unset
    /\ m_p = Unset
    /\ m_ret = Unset
    /\ m_matrix = <<>>
    /\ m_i = 0
    /\ m_rr = Zero
    /\ m_samples = <<>>
    /\ m_test = <<>>
    /\ m_e = 0
    /\ m_nacc = 0
    /\ m_nrej = 0
    /\ m_avg = Unset
    /\ m_ratios = <<>>

MIdle ==
    /\ m_pc = "idle"
    /\ m_args = [sample_iter |-> 1, walkers |-> 1, dims |-> 6, qfunc |-> "one"]
    /\ m_w = 0
    /\ m_vals = <<>>
    /\ m_itest = <<>>
    /\ m_rejects = Unset
    /\ m_p = Unset
    /\ m_ret = Unset
    /\ m_matrix = <<>>
    /\ m_i = 0
    /\ m_rr = Zero
    /\ m_samples = <<>>
    /\ m_test = <<>>
    /\ m_e = 0
    /\ m_nacc = 0
    /\ m_nrej = 0
    /\ m_avg = Unset
    /\ m_ratios = <<>>

\* integrator_mcmc line 95 calls metropolis_hastings, lines 45-55
MHStart ==
    /\ UNCHANGED <<vvars, hvars>>
    /\ m_pc = "walker"
    /\ m_w < m_args.walkers
    /\ m_matrix' \in [1..Electrons(m_args.dims) -> UniformDraws]
    /\ m_i' = 0
    /\ m_rr' = Zero
    /\ m_samples' = <<>>
    /\ m_test' = <<>>
    /\ m_nacc' = 0
    /\ m_nrej' = 0
    /\ m_pc' = "mh"
    /\ UNCHANGED <<m_e, ivars>>

\* line 64: trial_matrix[e_index] += (2.*s*np.random.rand(3) - s)/(dims/3)
Proposal(matrix, e, d, dims) ==
    [matrix EXCEPT ![e + 1] =
        [c \in 1..3 |-> RAdd(matrix[e + 1][c], RMul(d[c], <<1, Electrons(dims)>>))]]

\* lines 79-82: the sample appended in iteration i, if any
Sampled(i) == i > equi_threshold /\ (i - therm_mh) % therm_mh = 0

SamplesAfter(samples, i, matrix) ==
    IF Sampled(i) THEN Append(samples, Flatten(matrix)) ELSE samples

TestAfter(test, i, matrix) ==
    IF Sampled(i) THEN Append(test, Flatten(matrix)[4]) ELSE test

\* line 73: the matrix after an accepted proposal
Accepted(matrix, trial) == trial

\* a variant of line 77 that assigns where the code adds
RejectedAssigned(rr, iter) == <<1, iter>>

\* line 77: reject_ratio after a rejected proposal
Rejected(rr, iter) == RAdd(rr, <<1, iter>>)

\* one iteration of the loop of line 59, p > np.random.rand()
MHAccept ==
    /\ UNCHANGED <<vvars, hvars>>
    /\ m_pc = "mh"
    /\ m_i < m_args.sample_iter
    /\ \E e \in 0..(Electrons(m_args.dims) - 1), d \in UniformDraws :
          /\ m_e' = e
          /\ m_matrix' = Accepted(m_matrix, Proposal(m_matrix, e, d, m_args.dims))
    /\ m_rr' = m_rr
    /\ m_nacc' = m_nacc + 1
    /\ m_samples' = SamplesAfter(m_samples, m_i, m_matrix')
    /\ m_test' = TestAfter(m_test, m_i, m_matrix')
    /\ m_i' = m_i + 1
    /\ UNCHANGED <<m_pc, m_nrej, ivars>>

\* one iteration of the loop of line 59, the else branch of line 76
MHReject ==
    /\ UNCHANGED <<vvars, hvars>>
    /\ m_pc = "mh"
    /\ m_i < m_args.sample_iter
    /\ m_matrix' = m_matrix
    /\ m_rr' = Rejected(m_rr, m_args.sample_iter)
    /\ m_nrej' = m_nrej + 1
    /\ m_samples' = SamplesAfter(m_samples, m_i, m_matrix')
    /\ m_test' = TestAfter(m_test, m_i, m_matrix')
    /\ m_i' = m_i + 1
    /\ UNCHANGED <<m_pc, m_e, m_nacc, ivars>>

\* line 99: mc_samples[therm:]
Summed(mc_samples) == SubSeq(mc_samples, therm + 1, Len(mc_samples))

QValues(q, arrays) == [k \in 1..Len(arrays) |-> qfunc(q, arrays[k])]

\* line 102: the divisor of the average
Divisor(sample_iter) == sample_iter - therm

\* line 95: the rejects integrator_mcmc holds after a walker's call returned
\* reject_ratio
RejectsAfter(rejects, reject_ratio) == reject_ratio

\* metropolis_hastings returns (line 84); integrator_mcmc lines 95-102
MHReturn ==
    /\ UNCHANGED <<vvars, hvars>>
    /\ m_pc = "mh"
    /\ m_i = m_args.sample_iter
    /\ LET qs == QValues(m_args.qfunc, Summed(m_samples))
           sums == RSum(qs)
       IN  /\ m_itest' = m_itest \o qs
           /\ m_vals' = [m_vals EXCEPT ![m_w + 1] =
                            RMul(sums, <<1, Divisor(m_args.sample_iter)>>)]
           /\ m_avg' = [sums |-> sums, n |-> Len(qs),
                        divisor |-> Divisor(m_args.sample_iter)]
    /\ m_rejects' = RejectsAfter(m_rejects, m_rr)
    /\ m_ratios' = Append(m_ratios, m_rr)
    /\ m_p' = m_test
    /\ m_w' = m_w + 1
    /\ m_pc' = "walker"
    /\ UNCHANGED <<m_args, m_ret, mhvars>>

\* lines 104-111; np.sqrt(x) is kept as [sqrt |-> x]
IntegratorReturn ==
    /\ UNCHANGED <<vvars, hvars>>
    /\ m_pc = "walker"
    /\ m_w = m_args.walkers
    /\ LET walkers == m_args.walkers
           vals_squared == RSum([k \in 1..walkers |-> RMul(m_vals[k], m_vals[k])])
           vals_avg == RMul(RSum(m_vals), <<1, walkers>>)
           variance == RSub(RMul(vals_squared, <<1, walkers>>),
                            RMul(vals_avg, vals_avg))
           std_error == [sqrt |-> RMul(variance, <<1, walkers>>)]
       IN  m_ret' = [vals_avg |-> vals_avg, std_error |-> std_error,
                     rejects |-> m_rejects, test |-> m_itest, p |-> m_p]
    /\ m_pc' = "done"
    /\ UNCHANGED <<m_args, m_w, m_vals, m_itest, m_rejects, m_p, m_avg,
                   m_ratios, mhvars>>

MNext == MHStart \/ MHAccept \/ MHReject \/ MHReturn \/ IntegratorReturn

(***************************************************************************)
(* hydr_var.py: energy(psi) and the fmin it calls.                         *)
(*                                                                         *)
(* scipy.optimize.fmin(func, x0, args, disp = 0, full_output = 1) is the   *)
(* Nelder-Mead simplex search in one dimension, with its defaults          *)
(* xtol = ftol = 1e-4; its default maxiter of 200 is capped at MaxFminIter.*)
(* It catches nothing func raises, and returns the best vertex and its     *)
(* value.                                                                  *)
(***************************************************************************)
\* var_intgrl's defaults, line 157
DefaultStpt == 0
DefaultEndpt == 1000

\* line 201
initial_guess == <<1, 10>>

\* the cap on fmin's maxiter, and fmin's default maxfun
MaxFminIter == 8
MaxFun == 200

xtol == <<1, 10000>>
ftol == <<1, 10000>>
nonzdelt == <<1, 20>>

\* the element of a singleton: The({F(x) : x \in {v}}) is F(v), with v
\* evaluated once
The(S) == CHOOSE r \in S : TRUE

\* energy(psi), lines 191-198: args = (expectation_lamb, norm_lamb)
Lambs(psi) ==
    [expectation_lamb |-> ExpectationLamb(psi), norm_lamb |-> NormLamb(psi)]

\* fmin calls func(x, *args), with var_intgrl's defaults for stpt and endpt
Objective(args, a) ==
    var_intgrl(a, args.expectation_lamb, args.norm_lamb, DefaultStpt, DefaultEndpt)

\* a call of func by fmin: the point and what var_intgrl returned
Eval(args, a) == The({[a |-> x, ret |-> Objective(args, x)] : x \in {a}})

\* np.argsort(fsim) on two vertices
SortSimplex(sim, fsim) ==
    IF RLess(fsim[2], fsim[1])
    THEN [sim |-> <<sim[2], sim[1]>>, fsim |-> <<fsim[2], fsim[1]>>]
    ELSE [sim |-> sim, fsim |-> fsim]

Failed(evals) ==
    [ok |-> FALSE, err |-> evals[Len(evals)].ret.err, evals |-> evals]

\* the simplex fmin starts from: x0 and x0 * (1 + nonzdelt)
InitialSimplex(args, x0) ==
    The({ IF ~e0.ret.ok THEN Failed(<<e0>>)
          ELSE The({ IF ~e1.ret.ok THEN Failed(<<e0, e1>>)
                     ELSE [ok |-> TRUE, evals |-> <<e0, e1>>,
                           simplex |-> SortSimplex(<<e0.a, e1.a>>,
                                                   <<e0.ret.val, e1.ret.val>>)]
                     : e1 \in {Eval(args, RMul(x0, RAdd(One, nonzdelt)))} })
          : e0 \in {Eval(args, x0)} })

\* c1 * x + c2 * y
Combine(c1, x, c2, y) == RAdd(RMul(c1, x), RMul(c2, y))

Half == <<1, 2>>

\* the vertex that replaces the worst one
Moved(e, evals) == [ok |-> TRUE, x |-> e.a, fx |-> e.ret.val, evals |-> evals]

\* the shrink: sim[1] = sim[0] + sigma * (sim[1] - sim[0])
Shrink(args, sim, evals) ==
    The({ IF ~es.ret.ok THEN Failed(Append(evals, es))
          ELSE Moved(es, Append(evals, es))
          : es \in {Eval(args, RAdd(sim[1], RMul(Half, RSub(sim[2], sim[1]))))} })

\* fxr < fsim[0]: the expansion xe = (1 + rho*chi)*xbar - rho*chi*sim[-1]
Expansion(args, sim, er) ==
    The({ IF ~ee.ret.ok THEN Failed(<<er, ee>>)
          ELSE IF RLess(ee.ret.val, er.ret.val) THEN Moved(ee, <<er, ee>>)
          ELSE Moved(er, <<er, ee>>)
          : ee \in {Eval(args, Combine(RInt(3), sim[1], RInt(-2), sim[2]))} })

\* fxr < fsim[-1]: the contraction xc = (1 + psi*rho)*xbar - psi*rho*sim[-1]
OutsideContraction(args, sim, er) ==
    The({ IF ~ec.ret.ok THEN Failed(<<er, ec>>)
          ELSE IF RLeq(ec.ret.val, er.ret.val) THEN Moved(ec, <<er, ec>>)
          ELSE Shrink(args, sim, <<er, ec>>)
          : ec \in {Eval(args, Combine(<<3, 2>>, sim[1], <<-1, 2>>, sim[2]))} })

\* otherwise: the inside contraction xcc = (1 - psi)*xbar + psi*sim[-1]
InsideContraction(args, sim, fsim, er) ==
    The({ IF ~ecc.ret.ok THEN Failed(<<er, ecc>>)
          ELSE IF RLess(ecc.ret.val, fsim[2]) THEN Moved(ecc, <<er, ecc>>)
          ELSE Shrink(args, sim, <<er, ecc>>)
          : ecc \in {Eval(args, Combine(Half, sim[1], Half, sim[2]))} })

\* one iteration on the simplex [best, worst], xbar = sim[0]: the reflection
\* xr = (1 + rho)*xbar - rho*sim[-1], then expansion, contraction or shrink
\* (rho = 1, chi = 2, psi = 0.5, sigma = 0.5); fsim[-2] is fsim[0]
NMStep(args, sim, fsim) ==
    The({ IF ~er.ret.ok THEN Failed(<<er>>)
          ELSE IF RLess(er.ret.val, fsim[1]) THEN Expansion(args, sim, er)
          ELSE IF RLess(er.ret.val, fsim[1]) THEN Moved(er, <<er>>)
          ELSE IF RLess(er.ret.val, fsim[2]) THEN OutsideContraction(args, sim, er)
          ELSE InsideContraction(args, sim, fsim, er)
          : er \in {Eval(args, Combine(RInt(2), sim[1], RInt(-1), sim[2]))} })

\* the test that ends fmin's loop early
Converged(sim, fsim) ==
    /\ RLeq(RAbs(RSub(sim[2], sim[1])), xtol)
    /\ RLeq(RAbs(RSub(fsim[1], fsim[2])), ftol)

FminRuns ==
    /\ h_fcalls < MaxFun
    /\ h_iter < MaxFminIter
    /\ ~Converged(h_sim, h_fsim)

\* a variant of fmin that goes on counting from the iterations of the call
\* before
CarriedIteration == h_iter

\* fmin's iterations counter when a call of fmin starts
FirstIteration == 1

(***************************************************************************)
(* hydr_var.py: main() and line 236.                                       *)
(***************************************************************************)
\* the most lines the file holds
MaxLines == 3

Lines == {"0", "1", "exp(-alpha*r)", "2*exp(-alpha*r)", Malformed}

RECURSIVE SeqsUpTo(_, _)
SeqsUpTo(S, n) ==
    IF n = 0 THEN {<<>>}
    ELSE LET shorter == SeqsUpTo(S, n - 1)
         IN  shorter \cup {Append(q, x) : q \in shorter, x \in S}

\* readtrialfuncs(): every line parsed, or the first exception
readtrialfuncs(file) ==
    LET bad == {i \in 1..Len(file) : ~parse_expr(file[i]).ok}
    IN  IF bad = {}
        THEN Ok([i \in 1..Len(file) |-> parse_expr(file[i]).val])
        ELSE Raise(parse_expr(file[CHOOSE i \in bad : \A j \in bad : i <= j]).err)

\* a variant of print that writes nothing
print_nothing(out, line) == out

\* print(...): what stdout holds afterwards
print(out, line) == Append(out, line)

Header == [kind |-> "header"]

\* line 227; the %s and %f formats are not modelled
ResultLine(k, alpha_op, energy_min) ==
    [kind |-> "result", k |-> k, alpha_op |-> alpha_op, energy |-> energy_min]

\* line 236
OverallLine(v) == [kind |-> "overall", energy |-> v]

HInit ==
    /\ h_pc = "start"
    /\ h_file \in SeqsUpTo(Lines, MaxLines)
    /\ h_trialfuncs = <<>>
    /\ h_k = 0
    /\ h_energies = <<>>
    /\ h_out = <<>>
    /\ h_err = "none"
    /\ h_ret = Unset
    /\ h_args = Unset
    /\ h_sim = <<>>
    /\ h_fsim = <<>>
    /\ h_iter = 0
    /\ h_fcalls = 0
    /\ h_evals = <<>>
    /\ h_calls = <<>>

HIdle ==
    /\ h_pc = "idle"
    /\ h_file = <<>>
    /\ h_trialfuncs = <<>>
    /\ h_k = 0
    /\ h_energies = <<>>
    /\ h_out = <<>>
    /\ h_err = "none"
    /\ h_ret = Unset
    /\ h_args = Unset
    /\ h_sim = <<>>
    /\ h_fsim = <<>>
    /\ h_iter = 0
    /\ h_fcalls = 0
    /\ h_evals = <<>>
    /\ h_calls = <<>>

fminvars == <<h_args, h_sim, h_fsim, h_iter, h_fcalls, h_evals>>

\* lines 217-221: the header is printed, the file is read
MainStart ==
    /\ UNCHANGED <<vvars, mvars>>
    /\ h_pc = "start"
    /\ readtrialfuncs(h_file).ok
    /\ h_out' = print(h_out, Header)
    /\ h_trialfuncs' = readtrialfuncs(h_file).val
    /\ h_pc' = "loop"
    /\ UNCHANGED <<h_file, h_k, h_energies, h_err, h_ret, h_calls, fminvars>>

\* lines 217-221: parse_expr raises
MainParseError ==
    /\ UNCHANGED <<vvars, mvars>>
    /\ h_pc = "start"
    /\ ~readtrialfuncs(h_file).ok
    /\ h_out' = print(h_out, Header)
    /\ h_err' = readtrialfuncs(h_file).err
    /\ h_pc' = "failed"
    /\ UNCHANGED <<h_file, h_trialfuncs, h_k, h_energies, h_ret, h_calls, fminvars>>

\* line 223 calls energy(psi); lines 191-204, up to fmin's first simplex
EnergyStart ==
    /\ UNCHANGED <<vvars, mvars>>
    /\ h_pc = "loop"
    /\ h_k < Len(h_trialfuncs)
    /\ h_args' = Lambs(h_trialfuncs[h_k + 1])
    /\ \E first \in {InitialSimplex(h_args', initial_guess)} :
           /\ first.ok
           /\ h_sim' = first.simplex.sim
           /\ h_fsim' = first.simplex.fsim
           /\ h_evals' = first.evals
           /\ h_fcalls' = Len(first.evals)
    /\ h_iter' = FirstIteration
    /\ h_calls' = Append(h_calls, h_k + 1)
    /\ h_pc' = "fmin"
    /\ UNCHANGED <<h_file, h_trialfuncs, h_k, h_energies, h_out, h_err, h_ret>>

\* the same, when var_intgrl raises at a vertex of the first simplex: the
\* exception leaves fmin, energy and main
EnergyRaise ==
    /\ UNCHANGED <<vvars, mvars>>
    /\ h_pc = "loop"
    /\ h_k < Len(h_trialfuncs)
    /\ h_args' = Lambs(h_trialfuncs[h_k + 1])
    /\ \E first \in {InitialSimplex(h_args', initial_guess)} :
           /\ ~first.ok
           /\ h_evals' = first.evals
           /\ h_fcalls' = Len(first.evals)
           /\ h_err' = first.err
    /\ h_calls' = Append(h_calls, h_k + 1)
    /\ h_pc' = "failed"
    /\ UNCHANGED <<h_file, h_trialfuncs, h_k, h_energies, h_out, h_ret,
                   h_sim, h_fsim, h_iter>>

\* one iteration of fmin's loop; var_intgrl raising ends the run
FminIterate ==
    /\ UNCHANGED <<vvars, mvars>>
    /\ h_pc = "fmin"
    /\ FminRuns
    /\ \E step \in {NMStep(h_args, h_sim, h_fsim)} :
           /\ h_evals' = h_evals \o step.evals
           /\ h_fcalls' = h_fcalls + Len(step.evals)
           /\ \E next \in {IF step.ok
                           THEN SortSimplex(<<h_sim[1], step.x>>,
                                            <<h_fsim[1], step.fx>>)
                           ELSE [sim |-> h_sim, fsim |-> h_fsim]} :
                  /\ h_sim' = next.sim
                  /\ h_fsim' = next.fsim
           /\ h_err' = IF step.ok THEN h_err ELSE step.err
           /\ h_pc' = IF step.ok THEN "fmin" ELSE "failed"
    /\ h_iter' = h_iter + 1
    /\ UNCHANGED <<h_file, h_trialfuncs, h_k, h_energies, h_out, h_ret, h_calls,
                   h_args>>

\* fmin returns (x, fval) = (sim[0], min(fsim)); energy returns it (line 208);
\* main appends the energy and prints the result (lines 225-227)
EnergyReturn ==
    /\ UNCHANGED <<vvars, mvars>>
    /\ h_pc = "fmin"
    /\ ~FminRuns
    /\ LET alpha_op == h_sim[1]
           energy_min == RMin(h_fsim)
       IN  /\ h_energies' = Append(h_energies, energy_min)
           /\ h_out' = print(h_out, ResultLine(h_k + 1, alpha_op, energy_min))
    /\ h_k' = h_k + 1
    /\ h_pc' = "loop"
    /\ UNCHANGED <<h_file, h_trialfuncs, h_err, h_ret, h_calls, fminvars>>

\* lines 229-231: overall_energy_min = min(energies)
MainReturn ==
    /\ UNCHANGED <<vvars, mvars>>
    /\ h_pc = "loop"
    /\ h_k = Len(h_trialfuncs)
    /\ h_energies # <<>>
    /\ h_ret' = RMin(h_energies)
    /\ h_pc' = "returned"
    /\ UNCHANGED <<h_file, h_trialfuncs, h_k, h_energies, h_out, h_err, h_calls,
                   fminvars>>

\* line 229: min() of an empty list raises ValueError
MainMinRaise ==
    /\ UNCHANGED <<vvars, mvars>>
    /\ h_pc = "loop"
    /\ h_k = Len(h_trialfuncs)
    /\ h_energies = <<>>
    /\ h_err' = "ValueError"
    /\ h_pc' = "failed"
    /\ UNCHANGED <<h_file, h_trialfuncs, h_k, h_energies, h_out, h_ret, h_calls,
                   fminvars>>

\* line 236: print('\nThe overall maximum energy is %f.' %main())
PrintOverall ==
    /\ UNCHANGED <<vvars, mvars>>
    /\ h_pc = "returned"
    /\ h_out' = print(h_out, OverallLine(h_ret))
    /\ h_pc' = "done"
    /\ UNCHANGED <<h_file, h_trialfuncs, h_k, h_energies, h_err, h_ret, h_calls,
                   fminvars>>

HNext ==
    \/ MainStart
    \/ MainParseError
    \/ EnergyStart
    \/ EnergyRaise
    \/ FminIterate
    \/ EnergyReturn
    \/ MainReturn
    \/ MainMinRaise
    \/ PrintOverall

(***************************************************************************)
(* Specifications.                                                         *)
(***************************************************************************)
vars == <<hvars, vvars, mvars>>

\* a run of hydr_var.py
Init == HInit /\ VIdle /\ MIdle

Spec == Init /\ [][HNext]_vars

\* a call of var_intgrl
InitVar == VInit /\ HIdle /\ MIdle

SpecVar == InitVar /\ [][VNext]_vars

\* a call of integrator_mcmc
InitMC == MInit /\ HIdle /\ VIdle

SpecMC == InitMC /\ [][MNext]_vars

(***************************************************************************)
(* Properties of main() (under Spec).                                      *)
(***************************************************************************)
\* the (parameter, energy) results and the overall minimum printed so far
Results == SelectSeq(h_out, LAMBDA l : l.kind = "result")
Overalls == SelectSeq(h_out, LAMBDA l : l.kind = "overall")

\* main() has ended
Ended == h_pc \in {"failed", "returned", "done"}

\* every line is a valid entry and energy() returned for every one of them
AllSucceeded == readtrialfuncs(h_file).ok /\ h_k = Len(h_file)

ConstantFunc == "1"

\* the trial function energy() was last called with
LastCalled == h_file[h_calls[Len(h_calls)]]

C7_Objective ==
    /\ \A i \in 1..Len(h_evals) :
          LET a == h_evals[i].a
              n == norm_intgrl(h_args.norm_lamb, a, DefaultStpt, DefaultEndpt)
              e == expectation_intgrl(h_args.expectation_lamb, a,
                                      DefaultStpt, DefaultEndpt)
          IN  h_evals[i].ret = IF n.ok THEN Ok(RMul(n.val, e.val)) ELSE n
    /\ h_calls # <<>> =>
          /\ h_args = Lambs(h_trialfuncs[h_calls[Len(h_calls)]])
          /\ h_evals[1].a = <<1, 10>>
    /\ (h_pc = "loop" /\ h_k >= 1) =>
          /\ \E i \in 1..Len(h_evals) :
                /\ h_evals[i].a = Results[h_k].alpha_op
                /\ h_evals[i].ret = Ok(Results[h_k].energy)
          /\ \A i \in 1..Len(h_evals) :
                RLeq(Results[h_k].energy, h_evals[i].ret.val)

\* energy() has returned a parameter that is not the initial guess
C7_Witness ==
    /\ h_pc = "loop"
    /\ h_k >= 1
    /\ Len(h_evals) > 4
    /\ Results[h_k].alpha_op # initial_guess
    /\ RLess(Results[h_k].energy, h_evals[1].ret.val)

(***************************************************************************)
(* Properties of var_intgrl (under SpecVar).                               *)
(***************************************************************************)
\* norm_intgrl has returned or raised
NormActed == v_pc \in {"norm", "expect", "done", "raised"}

\* C3: in one call of var_intgrl the expectation integral and the
\* normalization integral are taken over the same domain [stpt, endpt]
C3_SameDomain ==
    v_pc = "done" =>
        /\ v_quads[1].lo = v_args.stpt /\ v_quads[1].hi = v_args.endpt
        /\ v_quads[2].lo = v_args.stpt /\ v_quads[2].hi = v_args.endpt

\* C4 as stated: norm_intgrl fails whenever the normalization integral is zero
\* or near zero, and var_intgrl yields no energy then
C4_Original ==
    (NormActed /\ NearZero(v_quads[1].val)) =>
        /\ ~v_norm.ok
        /\ v_pc = "raised"

\* C4, amended: norm_intgrl fails with a division error exactly when the
\* normalization integral is zero; from any other integral, a near-zero one
\* included, it returns N^2 = 1 / integral and var_intgrl yields an energy
C4_ZeroOnly ==
    NormActed =>
        /\ (v_quads[1].val = Zero) =>
              /\ v_norm = Raise("ZeroDivisionError")
              /\ v_pc = "raised"
              /\ v_ret = v_norm
        /\ (v_quads[1].val # Zero) =>
              /\ v_norm = Ok(RInv(v_quads[1].val))
              /\ v_pc # "raised"
              /\ v_pc = "done" =>
                    v_ret = Ok(RMul(RInv(v_quads[1].val), v_quads[2].val))

\* var_intgrl has returned an energy computed from a near-zero integral
C4_Witness ==
    /\ v_pc = "done"
    /\ v_quads[1].val # Zero
    /\ NearZero(v_quads[1].val)
    /\ v_ret.ok

(***************************************************************************)
(* Properties of integrator_mcmc (under SpecMC).                           *)
(***************************************************************************)
\* C9: the divisor (sample_iter - therm) of a walker's average equals the
\* number of samples summed
C9_DivisorIsCount == m_w >= 1 => m_avg.divisor = m_avg.n

\* one iteration of the loop of metropolis_hastings
MHIteration == m_pc = "mh" /\ m_i' = m_i + 1

\* the rows of the position matrix the iteration changed
ChangedRows == {e \in 1..Len(m_matrix) : m_matrix'[e] # m_matrix[e]}

\* C10: an iteration of metropolis_hastings either rejects, leaving the whole
\* position matrix unchanged and adding one rejection (1/iter to the ratio),
\* or accepts, changing the coordinates of the electron e_index alone and
\* adding no rejection; accepted + rejected = the iterations done, so the
\* ratio is the rejected fraction and lies in [0, 1]; integrator_mcmc returns
\* the ratio of the last walker
C10_Frame ==
    /\ [][MHIteration =>
            \/ /\ m_matrix' = m_matrix
               /\ m_rr' = RAdd(m_rr, <<1, m_args.sample_iter>>)
               /\ m_nrej' = m_nrej + 1
               /\ m_nacc' = m_nacc
            \/ /\ ChangedRows = {m_e' + 1}
               /\ m_rr' = m_rr
               /\ m_nrej' = m_nrej
               /\ m_nacc' = m_nacc + 1]_vars
    /\ [](m_pc = "mh" =>
            /\ m_nacc + m_nrej = m_i
            /\ m_i <= m_args.sample_iter
            /\ m_rr = Rat(m_nrej, m_args.sample_iter)
            /\ RLeq(Zero, m_rr) /\ RLeq(m_rr, One))
    /\ [](m_pc = "done" =>
            /\ Len(m_ratios) = m_args.walkers
            /\ m_ret.rejects = m_ratios[m_args.walkers])

\* two walkers with different ratios, the last with proposals of both kinds
C10_Witness ==
    /\ m_pc = "done"
    /\ m_args.walkers = 2
    /\ m_ratios[1] # m_ratios[2]
    /\ m_nacc >= 1
    /\ m_nrej >= 1
    /\ m_ret.rejects = m_ratios[2]

=============================================================================
